---- MODULE Spec2Model ----
(***************************************************************************)
(* State-machine model of the attendance administration application:       *)
(* the views of attendance/views.py and users/views.py over the User,      *)
(* Profile, AttendanceSession and Attendance tables.                       *)
(*                                                                         *)
(* The state is the database.  Every view is an operator that maps the     *)
(* current database and one request (caller, method, parameters) to the    *)
(* response and the database the request leaves behind; the action of the  *)
(* view installs that database.  Requests are drawn with \E.               *)
(***************************************************************************)
EXTENDS Integers, Sequences, FiniteSets, TLC

\* ------------------------------------------------------------------ bounds
\* Number of user ids the auto-increment key may hand out.
MaxUsers == 2
\* Number of attendance sessions that may be created.
MaxSessions == 1
\* Number of mark requests that may be in flight at once (SpecConc only).
MaxInflight == 1

UserIds == 1..MaxUsers
SessionIds == 1..MaxSessions
\* Ids that match no row: the keys never reach them.
NoSuchUser == MaxUsers + 1
NoSuchSession == MaxSessions + 1
\* request.user of a request without a login (django AnonymousUser): a caller
\* that is no row of the User table.
Anonymous == NoSuchUser + 1

Methods == {"GET", "POST"}
Statuses == {"present", "late", "absent"}
Names == <<"u1", "u2", "u3", "u4", "u5", "u6">>

VARIABLES
    user,        \* auth User table: id -> [username, is_superuser]
    profile,     \* Profile table: user id -> [grade, section, account, phone_number]
    nextUserId,  \* next value of the User primary key
    session,     \* AttendanceSession table, a sequence indexed by id:
                 \*   [title, is_ended, targets]
    attendance,  \* Attendance table: <<session id, user id>> -> sequence of rows
                 \*   [status], one element per stored row
    inflight     \* mark requests that have read the session and not yet written

vars == <<user, profile, nextUserId, session, attendance, inflight>>

\* The database as one value.
Store ==
    [user |-> user, profile |-> profile, nextUserId |-> nextUserId,
     session |-> session, attendance |-> attendance]

\* What a view returns: the response (out, and the number its message
\* carries) and the database it leaves.
Result(out, count, st) == [out |-> out, count |-> count, store |-> st]

\* The action of a view whose result is r.  The two guards cap the primary
\* keys at the bounds of the model.
Serve(r) ==
    LET st == r.store IN
    /\ Len(st.session) <= MaxSessions
    /\ st.nextUserId <= MaxUsers + 1
    /\ user' = st.user
    /\ profile' = st.profile
    /\ nextUserId' = st.nextUserId
    /\ session' = st.session
    /\ attendance' = st.attendance
    /\ UNCHANGED inflight

\* ----------------------------------------------------------------- helpers
\* lambda u: u.is_superuser, on request.user.
is_superuser(caller) ==
    caller \in DOMAIN user /\ user[caller].is_superuser

\* user_passes_test(...): the view runs only when the test passes, any other
\* caller is redirected to the login page.
admin_required(caller) == is_superuser(caller)

\* The callers requests are drawn from: every superuser, and a caller that
\* is none.  The views read nothing of request.user but is_superuser, so a
\* logged-in account that is no superuser is served as Anonymous is.
Callers == {u \in DOMAIN user : user[u].is_superuser} \cup {Anonymous}

NoRows == [p \in SessionIds \X UserIds |-> <<>>]

RowsOf(s, u) == attendance[<<s, u>>]

\* Attendance.objects.filter(session=session).values_list("user_id")
marked_user_ids(s) == {u \in UserIds : Len(RowsOf(s, u)) > 0}

\* (variant: every target counts as missing, marked or not)
missing_users_all(s) == session[s].targets

\* session.targets.exclude(id__in=marked_user_ids)
missing_users(s) == session[s].targets \ marked_user_ids(s)

\* ------------------------------------------------------------------- Init
\* A fresh deployment: the superuser made by createsuperuser (no Profile),
\* no sessions, no attendance.
Init ==
    /\ user = (1 :> [username |-> Names[1], is_superuser |-> TRUE])
    /\ profile = <<>>
    /\ nextUserId = 2
    /\ session = <<>>
    /\ attendance = NoRows
    /\ inflight = {}

\* ------------------------------------------------- attendance/views.py
\* str.strip() on a title given as a sequence of characters.
RECURSIVE lstrip(_)
lstrip(t) == IF t # <<>> /\ Head(t) = " " THEN lstrip(Tail(t)) ELSE t
RECURSIVE rstrip(_)
rstrip(t) ==
    IF t # <<>> /\ t[Len(t)] = " " THEN rstrip(SubSeq(t, 1, Len(t) - 1)) ELSE t
strip(t) == rstrip(lstrip(t))

\* Request bodies of the create view: json.loads fails, or a JSON object
\* with an optional "title" and a "targets" list (default []).
\* A blank or missing title is drawn with one target list, a title with
\* every list of ids (the ids of the list, as id__in reads them).
BlankTitles == {<<>>, <<" ">>}
TargetIdLists == SUBSET (UserIds \cup {NoSuchUser})
Bodies ==
    {[valid |-> FALSE, has_title |-> FALSE, title |-> <<>>, targets |-> {}]}
    \cup [valid : {TRUE}, has_title : {FALSE}, title : {<<>>}, targets : {{1}}]
    \cup [valid : {TRUE}, has_title : {TRUE}, title : BlankTitles,
          targets : {{1}}]
    \cup [valid : {TRUE}, has_title : {TRUE}, title : {<<"T">>},
          targets : TargetIdLists]

\* User.objects.filter(id__in=target_ids)
filter_id_in(target_ids) == target_ids \cap DOMAIN user

\* AttendanceSession.title is declared without a unique constraint: two
\* sessions may carry one title.
title_unique == FALSE

create_attendance_session(caller, method, body) ==
    IF ~admin_required(caller) THEN Result("login", 0, Store)
    ELSE IF method # "POST" THEN Result("form", 0, Store)
    ELSE IF ~body.valid THEN Result("error_invalid_data", 0, Store)
    ELSE IF ~body.has_title \/ body.title = <<>> \/ strip(body.title) = <<>>
    THEN Result("error_title_required", 0, Store)
    ELSE IF body.targets = {} THEN Result("warning_no_users", 0, Store)
    ELSE IF title_unique /\ \E k \in DOMAIN session : session[k].title = body.title
    THEN Result("500", 0, Store)
    ELSE
        LET targets == filter_id_in(body.targets)
            created == [title |-> body.title, is_ended |-> FALSE,
                        targets |-> targets]
        IN Result("created", Cardinality(targets),
                  [Store EXCEPT !.session = Append(session, created)])

\* Attendance.objects.update_or_create(session=, user=, defaults={status,
\* attended_at}) on the rows stored for one (session, user) pair: the one
\* row is overwritten, or the first row is inserted.  (The timestamp of a
\* row is not modelled.)
update_or_create_insert(rows, status) ==
    \* (variant: a plain create, whatever is stored)
    Append(rows, [status |-> status])

update_or_create(rows, status) ==
    IF Len(rows) = 0
    THEN Append(rows, [status |-> status])
    ELSE [rows EXCEPT ![1] = [status |-> status]]

\* (variant: the target check is left out)
is_target_any(s, u) == TRUE

\* session.targets.filter(id=user.id).exists()
is_target(s, u) == u \in session[s].targets

\* Lines 119-136 of attendance_session_detail: the marking of one user, run
\* against the database as it is when these lines execute.  count tells
\* whether update_or_create inserted (1) or overwrote (0).
mark_user(sid, user_id, status) ==
    IF user_id \notin DOMAIN user THEN Result("404", 0, Store)
    ELSE IF ~is_target(sid, user_id) THEN Result("warning_not_target", 0, Store)
    ELSE IF Len(RowsOf(sid, user_id)) > 1
    THEN Result("500", 0, Store)    \* MultipleObjectsReturned
    ELSE Result("marked", IF Len(RowsOf(sid, user_id)) = 0 THEN 1 ELSE 0,
                [Store EXCEPT !.attendance[<<sid, user_id>>] =
                                  update_or_create(@, status)])

\* Form values of the marking POST: user_id absent (0) or an id, status one
\* of the three or anything else.
MarkParams ==
    [user_id : UserIds \cup {NoSuchUser}, status : Statuses]
    \cup {[user_id |-> 0, status |-> "present"],
          [user_id |-> 1, status |-> "unmarked"]}

\* (variant: the view does not look at is_ended)
is_mark_request_any(method, sid, user_id, status) ==
    /\ method = "POST"
    /\ user_id # 0
    /\ status \in Statuses

\* Lines 115 and 119: the request is a marking request the view acts on.
is_mark_request(method, sid, user_id, status) ==
    /\ method = "POST"
    /\ ~session[sid].is_ended
    /\ user_id # 0
    /\ status \in Statuses

attendance_session_detail(caller, method, sid, user_id, status) ==
    IF ~admin_required(caller) THEN Result("login", 0, Store)
    ELSE IF sid \notin DOMAIN session THEN Result("404", 0, Store)
    ELSE IF is_mark_request(method, sid, user_id, status)
    THEN mark_user(sid, user_id, status)
    ELSE Result("detail", 0, Store)

\* (variant: no transaction, the writes made before the exception stay)
transaction_atomic_off(before, after, raised) == after

\* @transaction.atomic: the writes of the body are kept when it returns and
\* undone when it raises.
transaction_atomic(before, after, raised) == IF raised THEN before ELSE after

\* Attendance.objects.bulk_create(to_create): one absent row per missing user.
bulk_create(att, s, to_create) ==
    [p \in DOMAIN att |->
        IF p[1] = s /\ p[2] \in to_create
        THEN Append(att[p], [status |-> "absent"])
        ELSE att[p]]

\* Where the database may fail inside close: nowhere, or at session.save(),
\* after the bulk insert.
Faults == {"none", "save"}

\* (variant: the view does not look at is_ended)
already_closed_never(sid) == FALSE

\* Line 186: the session is already closed.
already_closed(sid) == session[sid].is_ended

close_attendance_session(caller, method, sid, fault) ==
    IF ~admin_required(caller) THEN Result("login", 0, Store)
    ELSE IF sid \notin DOMAIN session THEN Result("404", 0, Store)
    ELSE IF method # "POST" THEN Result("redirect", 0, Store)
    ELSE IF already_closed(sid) THEN Result("warning_already_closed", 0, Store)
    ELSE
        LET to_create == missing_users(sid)
            filled == [Store EXCEPT
                          !.attendance = bulk_create(attendance, sid, to_create)]
            saved == [filled EXCEPT !.session[sid].is_ended = TRUE]
        IN  IF fault = "save"
            THEN Result("500", 0, transaction_atomic(Store, filled, TRUE))
            ELSE Result("finalized", Cardinality(to_create),
                        transaction_atomic(Store, saved, FALSE))

\* The annotations of attendance_session_list for one session, read from
\* the database st.
RECURSIVE CountStatus(_, _)
CountStatus(rows, status) ==
    IF rows = <<>> THEN 0
    ELSE (IF Head(rows).status = status THEN 1 ELSE 0)
         + CountStatus(Tail(rows), status)
RECURSIVE SumOver(_, _, _, _)
SumOver(st, us, s, status) ==
    IF us = {} THEN 0
    ELSE LET u == CHOOSE x \in us : TRUE
         IN CountStatus(st.attendance[<<s, u>>], status)
            + SumOver(st, us \ {u}, s, status)
\* Count("targets", distinct=True)
target_count(st, s) == Cardinality(st.session[s].targets)
\* Count("attendances", filter=Q(attendances__status=status), distinct=True)
status_count(st, s, status) == SumOver(st, UserIds, s, status)
attendance_session_list(st, s) ==
    LET present == status_count(st, s, "present")
        late == status_count(st, s, "late")
        absent == status_count(st, s, "absent")
    IN  [target_count |-> target_count(st, s),
         present_count |-> present,
         late_count |-> late,
         absent_count |-> absent,
         unmarked_count |-> target_count(st, s) - present - late - absent]

\* The views that only read: dashboard, attendance_session_list, the two
\* exports (attendance/views.py) and users_list (users/views.py).
ReadOnlyViews == {"dashboard", "attendance_session_list", "export_users_excel",
                  "export_attendance_matrix_excel", "users_list"}

read_only_view(caller, view) ==
    IF ~admin_required(caller) THEN Result("login", 0, Store)
    ELSE Result("rendered", 0, Store)

\* ------------------------------------------------------ users/views.py
\* Field defaults of Profile (users/models.py): CharFields default to "",
\* account to "N/A".
DefaultProfile ==
    [grade |-> "", section |-> "", account |-> "N/A", phone_number |-> ""]

\* Profile.objects.get_or_create(user=u): the Profile table afterwards.
get_or_create_profile(u) ==
    IF u \in DOMAIN profile THEN profile ELSE profile @@ (u :> DefaultProfile)

\* User.objects.filter(username=name).exists()
username_exists(name) == \E u \in DOMAIN user : user[u].username = name

\* POST forms of create_user: the username, whether the other required
\* fields (email, passwords, grade, section, phone) are all present, whether
\* the two passwords agree, and the optional account.
\* Usernames are drawn from the names in use and the one name kept for the
\* next id.
CreateForms ==
    [username : {Names[i] : i \in 1..nextUserId}, others_given : {TRUE},
     passwords_match : {TRUE}, account : {"", "x"}]
    \cup {[username |-> "", others_given |-> TRUE, passwords_match |-> TRUE,
           account |-> "x"],
          [username |-> Names[nextUserId], others_given |-> FALSE,
           passwords_match |-> TRUE, account |-> "x"],
          [username |-> Names[nextUserId], others_given |-> TRUE,
           passwords_match |-> FALSE, account |-> "x"]}

create_user(caller, method, form) ==
    IF ~admin_required(caller) THEN Result("login", 0, Store)
    ELSE IF method # "POST" THEN Result("form", 0, Store)
    ELSE IF form.username = "" \/ ~form.others_given
    THEN Result("error_fields_required", 0, Store)
    ELSE IF ~form.passwords_match THEN Result("error_passwords", 0, Store)
    ELSE IF username_exists(form.username)
    THEN Result("error_username_exists", 0, Store)
    ELSE
        LET with_user == [Store EXCEPT
                !.user = user @@ (nextUserId :>
                             [username |-> form.username, is_superuser |-> FALSE]),
                !.nextUserId = nextUserId + 1]
            with_profile == [with_user EXCEPT
                !.profile = profile @@ (nextUserId :>
                             [grade |-> "9", section |-> "A",
                              account |-> form.account, phone_number |-> "1"])]
        IN  \* account=account or None: None violates NOT NULL, the insert
            \* raises after the user row is stored (no transaction here).
            IF form.account = "" THEN Result("500", 0, with_user)
            ELSE Result("created", 0, with_profile)

user_detail(caller, user_id) ==
    IF user_id \notin DOMAIN user THEN Result("404", 0, Store)
    ELSE Result("rendered", 0,
                [Store EXCEPT !.profile = get_or_create_profile(user_id)])

\* user.delete(): the rows that go with the user.  The Profile row by
\* on_delete=CASCADE (users/models.py), the rows of the targets relation with
\* the user they point to.
delete_user_rows(f, u) == [x \in DOMAIN f \ {u} |-> f[x]]
delete_from_targets(sess, u) ==
    [s \in DOMAIN sess |-> [sess[s] EXCEPT !.targets = @ \ {u}]]
\* The Attendance rows of a deleted user are removed with it.
delete_attendance_of(att, u) ==
    [p \in DOMAIN att |-> IF p[2] = u THEN <<>> ELSE att[p]]

\* (variant: the superuser rule is left out)
delete_refused_never(caller, user_id) == FALSE

\* Line 142: user_to_delete.is_superuser and not request.user.is_superuser.
delete_refused(caller, user_id) ==
    user[user_id].is_superuser /\ ~is_superuser(caller)

user_delete(caller, method, user_id) ==
    IF method # "POST" THEN Result("redirect", 0, Store)
    ELSE IF user_id \notin DOMAIN user THEN Result("404", 0, Store)
    ELSE IF delete_refused(caller, user_id)
    THEN Result("error_permission", 0, Store)
    ELSE Result("deleted", 0,
                [Store EXCEPT
                    !.user = delete_user_rows(user, user_id),
                    !.profile = delete_user_rows(profile, user_id),
                    !.session = delete_from_targets(session, user_id),
                    !.attendance = delete_attendance_of(attendance, user_id)])

\* str.upper() on the section strings the forms carry.
upper(s) == IF s = "a" THEN "A" ELSE s

\* POST forms of user_edit.
EditForms ==
    [username : {"", " "} \cup {user[u].username : u \in DOMAIN user},
     grade : {"9"}, section : {"a"}, account : {"x"}, phone_number : {"1"}]

user_edit(caller, method, user_id, form) ==
    IF user_id \notin DOMAIN user THEN Result("404", 0, Store)
    ELSE
        LET got == [Store EXCEPT !.profile = get_or_create_profile(user_id)]
            p == got.profile[user_id]
            section == upper(form.section)
            old == form.grade \o section \o form.account
                   \o form.phone_number \o form.username
            new == p.grade \o p.section \o p.account \o p.phone_number
                   \o user[user_id].username
            \* a username already taken violates its unique constraint
            taken == \E u \in DOMAIN user \ {user_id} :
                         user[u].username = form.username
            saved == [got EXCEPT
                         !.user[user_id].username = form.username,
                         !.profile[user_id] =
                             [grade |-> form.grade, section |-> section,
                              account |-> form.account,
                              phone_number |-> form.phone_number]]
        IN  IF method # "POST" THEN Result("form", 0, got)
            ELSE IF form.username = "" \/ form.username = " "
            THEN Result("error_username_empty", 0, got)
            ELSE IF new = old THEN Result("warning_nothing_changed", 0, got)
            ELSE IF taken THEN Result("500", 0, transaction_atomic(Store, saved, TRUE))
            ELSE Result("updated", 0, transaction_atomic(Store, saved, FALSE))

\* --------------------------------------------- concurrent mark requests
\* A mark request that has run lines 112-117 (the session was read and was
\* open) and has not yet run lines 119-136.
MarkRequests == [sid : SessionIds, user_id : UserIds \cup {NoSuchUser},
                 status : Statuses]

mark_begin(caller, req) ==
    /\ admin_required(caller)
    /\ req.sid \in DOMAIN session
    /\ is_mark_request("POST", req.sid, req.user_id, req.status)
    /\ Cardinality(inflight) < MaxInflight
    /\ inflight' = inflight \cup {req}
    /\ UNCHANGED <<user, profile, nextUserId, session, attendance>>

mark_finish(req) ==
    /\ req \in inflight
    /\ LET r == mark_user(req.sid, req.user_id, req.status)
       IN  attendance' = r.store.attendance
    /\ inflight' = inflight \ {req}
    /\ UNCHANGED <<user, profile, nextUserId, session>>

\* ------------------------------------------- user_detail: the analytics
\* (variant: every session is counted, targeting the user or not)
total_sessions_all(st, u) == Len(st.session)

\* AttendanceSession.objects.filter(targets=user_data).count()
total_sessions(st, u) ==
    Cardinality({s \in DOMAIN st.session : u \in st.session[s].targets})

\* Attendance.objects.filter(user=user_data).aggregate(Count("status",
\* filter=Q(status=...))): the rows of the user, in whatever session.
RECURSIVE aggregate_count(_, _, _, _)
aggregate_count(st, ss, u, status) ==
    IF ss = {} THEN 0
    ELSE LET s == CHOOSE x \in ss : TRUE
         IN  CountStatus(st.attendance[<<s, u>>], status)
                 + aggregate_count(st, ss \ {s}, u, status)

attendance_counts(st, u, status) ==
    aggregate_count(st, {p[1] : p \in DOMAIN st.attendance}, u, status)

\* round((count / total_sessions) * 100, 1), in tenths of a percent; a value
\* halfway between two tenths goes to the even one.
percent(count, total) ==
    LET q == (count * 1000) \div total
        r == (count * 1000) % total
    IN  IF 2 * r > total THEN q + 1
        ELSE IF 2 * r < total THEN q
        ELSE q + (q % 2)

\* Lines 88-130: the context user_detail renders.
per_user_stats(st, u) ==
    LET total == total_sessions(st, u)
        present == attendance_counts(st, u, "present")
        late == attendance_counts(st, u, "late")
        absent == attendance_counts(st, u, "absent")
        marked_total == present + late + absent
        unmarked == total - marked_total
        pct(n) == IF total > 0 THEN percent(n, total) ELSE 0
    IN  [total_sessions |-> total,
         attendance_rate |-> pct(present + late),
         present |-> [count |-> present, percent |-> pct(present)],
         late |-> [count |-> late, percent |-> pct(late)],
         absent |-> [count |-> absent, percent |-> pct(absent)],
         unmarked |-> [count |-> unmarked, percent |-> pct(unmarked)],
         chart_data |-> <<present, late, absent, unmarked>>]

\* ------------------------------------- export_attendance_matrix_excel
\* order_by("username"): usernames are compared as strings; the names of the
\* model sort as their place in Names.
username_rank(name) == CHOOSE i \in 1..Len(Names) : Names[i] = name

RECURSIVE order_by_username(_, _)
order_by_username(st, us) ==
    IF us = {} THEN <<>>
    ELSE LET first == CHOOSE u \in us : \A v \in us :
                          username_rank(st.user[u].username)
                              <= username_rank(st.user[v].username)
         IN  <<first>> \o order_by_username(st, us \ {first})

\* User.objects.filter(profile__isnull=False).order_by("username")
all_students(st) ==
    order_by_username(st, {u \in DOMAIN st.user : u \in DOMAIN st.profile})

\* AttendanceSession.objects.all().order_by("created_at"): the ids, in the
\* order the sessions were created.
all_sessions(st) == [k \in 1..Len(st.session) |-> k]

\* attendance_lookup.get((student.id, session.id), "N/A"): the dict holds the
\* status of the last record read for the pair.
attendance_lookup_get(st, u, s) ==
    IF st.attendance[<<s, u>>] = <<>> THEN "N/A"
    ELSE st.attendance[<<s, u>>][Len(st.attendance[<<s, u>>])].status

\* session_titles = [session.title for session in all_sessions]
session_titles(st) ==
    [k \in 1..Len(st.session) |-> st.session[all_sessions(st)[k]].title]

\* The dict `row` after the loop over all_sessions: row[session.title] is
\* assigned once per session, so a title holds what the last session of that
\* title assigned.
RECURSIVE row_after(_, _, _, _)
row_after(st, u, k, row) ==
    IF k > Len(st.session) THEN row
    ELSE LET s == all_sessions(st)[k]
             status == attendance_lookup_get(st, u, s)
             title == st.session[s].title
         IN  row_after(st, u, k + 1,
                       [x \in DOMAIN row \cup {title} |->
                           IF x = title THEN status ELSE row[x]])

\* pd.DataFrame(attendance_matrix_data, columns=columns): one line per dict,
\* the cell under a column being the dict's value for the column's name.
\* (The "User" column is kept apart from the session columns.)
export_attendance_matrix_excel(st) ==
    LET students == all_students(st)
        columns == session_titles(st)
    IN  [columns |-> columns,
         rows |-> [i \in 1..Len(students) |->
                     LET row == row_after(st, students[i], 1, <<>>)
                     IN  [User |-> st.user[students[i]].username,
                          cells |-> [k \in 1..Len(columns) |->
                                        row[columns[k]]]]]]

\* ---------------------------------------------------------- specifications
\* A deployment with its roster entered: the superuser, and every other id
\* a user as create_user leaves it (with its Profile).
InitRoster ==
    /\ user = [u \in UserIds |->
                  [username |-> Names[u], is_superuser |-> u = 1]]
    /\ profile = [u \in UserIds \ {1} |->
                     [grade |-> "9", section |-> "A", account |-> "x",
                      phone_number |-> "1"]]
    /\ nextUserId = MaxUsers + 1
    /\ session = <<>>
    /\ attendance = NoRows
    /\ inflight = {}

SessionParams == SessionIds \cup {NoSuchSession}
UserParams == UserIds \cup {NoSuchUser}

\* A request that the gate turns away, or that is no POST, is drawn once:
\* its parameters are not read.
Acts(c, m) == admin_required(c) /\ m = "POST"

CreateAttendanceSession ==
    \E c \in Callers, m \in Methods :
        \E b \in IF Acts(c, m) THEN Bodies
                 ELSE {[valid |-> FALSE, has_title |-> FALSE, title |-> <<>>,
                        targets |-> {}]} :
            Serve(create_attendance_session(c, m, b))
AttendanceSessionDetail ==
    \E c \in Callers, m \in Methods :
        \E s \in IF admin_required(c) THEN SessionParams ELSE {NoSuchSession} :
            \E p \in IF Acts(c, m) /\ s \in DOMAIN session THEN MarkParams
                     ELSE {[user_id |-> 0, status |-> "present"]} :
                Serve(attendance_session_detail(c, m, s, p.user_id, p.status))
CloseAttendanceSession ==
    \E c \in Callers, m \in Methods :
        \E s \in IF admin_required(c) THEN SessionParams ELSE {NoSuchSession},
           f \in IF Acts(c, m) THEN Faults ELSE {"none"} :
            Serve(close_attendance_session(c, m, s, f))
ReadOnlyView ==
    \E c \in Callers, v \in ReadOnlyViews : Serve(read_only_view(c, v))
CreateUser ==
    \E c \in Callers, m \in Methods :
        \E f \in IF Acts(c, m) THEN CreateForms
                 ELSE {[username |-> "", others_given |-> FALSE,
                        passwords_match |-> FALSE, account |-> ""]} :
            Serve(create_user(c, m, f))
UserDetail ==
    \E c \in Callers, u \in UserParams : Serve(user_detail(c, u))
UserDelete ==
    \E c \in Callers, m \in Methods :
        \E u \in IF m = "POST" THEN UserParams ELSE {NoSuchUser} :
            Serve(user_delete(c, m, u))
UserEdit ==
    \E c \in Callers, m \in Methods, u \in UserParams :
        \E f \in IF m = "POST" THEN EditForms
                 ELSE {[username |-> "", grade |-> "9", section |-> "a",
                        account |-> "x", phone_number |-> "1"]} :
            Serve(user_edit(c, m, u, f))
MarkBegin == \E c \in Callers, r \in MarkRequests : mark_begin(c, r)
MarkFinish == \E r \in inflight : mark_finish(r)

Next ==
    \/ CreateAttendanceSession
    \/ AttendanceSessionDetail
    \/ CloseAttendanceSession
    \/ ReadOnlyView
    \/ CreateUser
    \/ UserDetail
    \/ UserDelete
    \/ UserEdit

\* Every request runs to completion before the next one starts.
Spec == Init /\ [][Next]_vars

\* The session lifecycle over an entered roster: the views that write the
\* AttendanceSession and Attendance tables or the rows they point to.
NextSession ==
    \/ CreateAttendanceSession
    \/ AttendanceSessionDetail
    \/ CloseAttendanceSession
    \/ ReadOnlyView
    \/ UserDetail
    \/ UserDelete

SpecSession == InitRoster /\ [][NextSession]_vars

NextConc ==
    \/ NextSession
    \/ MarkBegin
    \/ MarkFinish

\* Requests are served concurrently: a mark request may be overtaken between
\* its read of the session and its write.
SpecConc == InitRoster /\ [][NextConc]_vars

\* The attendance application with room for one session more, sessions
\* titled alike or not, over the roster: the states the matrix export reads.
MaxColumns == MaxSessions + 1

InitMatrix ==
    /\ user = [u \in UserIds |->
                  [username |-> Names[u], is_superuser |-> u = 1]]
    /\ profile = [u \in UserIds \ {1} |->
                     [grade |-> "9", section |-> "A", account |-> "x",
                      phone_number |-> "1"]]
    /\ nextUserId = MaxUsers + 1
    /\ session = <<>>
    /\ attendance = [p \in (1..MaxColumns) \X UserIds |-> <<>>]
    /\ inflight = {}

MatrixBodies ==
    [valid : {TRUE}, has_title : {TRUE}, title : {<<"T">>, <<"U">>},
     targets : SUBSET UserIds \ {{}}]

ServeMatrix(r) ==
    LET st == r.store IN
    /\ Len(st.session) <= MaxColumns
    /\ user' = st.user
    /\ profile' = st.profile
    /\ nextUserId' = st.nextUserId
    /\ session' = st.session
    /\ attendance' = st.attendance
    /\ UNCHANGED inflight

MatrixCreate ==
    \E c \in {c \in Callers : admin_required(c)}, b \in MatrixBodies :
        ServeMatrix(create_attendance_session(c, "POST", b))
MatrixMark ==
    \E c \in {c \in Callers : admin_required(c)}, s \in DOMAIN session, u \in UserIds, status \in Statuses :
        ServeMatrix(attendance_session_detail(c, "POST", s, u, status))
MatrixClose ==
    \E c \in {c \in Callers : admin_required(c)}, s \in DOMAIN session :
        ServeMatrix(close_attendance_session(c, "POST", s, "none"))
MatrixUserDetail ==
    \E c \in Callers, u \in UserIds : ServeMatrix(user_detail(c, u))
MatrixExport ==
    \E c \in Callers :
        ServeMatrix(read_only_view(c, "export_attendance_matrix_excel"))

NextMatrix ==
    \/ MatrixCreate
    \/ MatrixMark
    \/ MatrixClose
    \/ MatrixUserDetail
    \/ MatrixExport

SpecMatrix == InitMatrix /\ [][NextMatrix]_vars

\* ------------------------------------------------------------------ claims
Admins == {c \in Callers : admin_required(c)}
Row(status) == <<[status |-> status]>>
Ended(s) == session[s].is_ended
\* The targets of session s whose one row has this status.
TargetsWith(st, s, status) ==
    {u \in st.session[s].targets : st.attendance[<<s, u>>] = Row(status)}
\* Responses that report a failure to the caller: an error or warning
\* message, a 404 or a 500.
FailureOuts ==
    {"404", "500", "error_invalid_data", "error_title_required",
     "warning_no_users", "warning_not_target", "warning_already_closed",
     "error_fields_required", "error_passwords", "error_username_exists",
     "error_permission", "error_username_empty", "warning_nothing_changed"}

\* C1: a session is ended only if every one of its targets has exactly one
\* Attendance row for it, and a close that aborts after its bulk insert
\* leaves the database as it was (no filled rows without is_ended).
C1_EndedOnlyWhenFilled ==
    \A s \in DOMAIN session :
        /\ Ended(s) => \A u \in session[s].targets : Len(RowsOf(s, u)) = 1
        /\ ~Ended(s) =>
              \A c \in Admins :
                  LET r == close_attendance_session(c, "POST", s, "save")
                  IN  r.store = Store /\ r.out = "500"

\* A closed session with two targets, each with its row; one was absent.
C1_Witness ==
    \E s \in DOMAIN session :
        /\ Ended(s)
        /\ Cardinality(session[s].targets) >= 2
        /\ \E u \in session[s].targets : RowsOf(s, u) = Row("absent")

\* C2: a mark on an ended session is answered with a failure and changes
\* nothing in the database, for every user and status.
C2_MarkOnEndedFails ==
    \A s \in DOMAIN session : Ended(s) =>
        \A c \in Admins, p \in MarkParams :
            LET r == attendance_session_detail(c, "POST", s, p.user_id, p.status)
            IN  r.out \in FailureOuts /\ r.store = Store

\* C3: close on an already closed session reports already-closed and writes
\* nothing, whether or not the database would fail at save.
C3_SecondCloseWritesNothing ==
    \A s \in DOMAIN session : Ended(s) =>
        \A c \in Admins, f \in Faults :
            LET r == close_attendance_session(c, "POST", s, f)
            IN  r.out = "warning_already_closed" /\ r.store = Store

\* A closed session whose close filled a row.
C3_Witness ==
    \E s \in DOMAIN session :
        /\ Ended(s)
        /\ \E u \in session[s].targets : RowsOf(s, u) = Row("absent")
        /\ \E u \in session[s].targets : RowsOf(s, u) = Row("late")

\* C4: close keeps the row of every marked target, inserts one absent row
\* for exactly the targets without a row and reports their number; the
\* summary of the closed session then counts the targets marked present,
\* late, and absent (marked or filled), with unmarked = 0.
C4_CloseFillsAndSummaryCounts ==
    \A s \in DOMAIN session :
        /\ ~Ended(s) =>
              \A c \in Admins :
                  LET r == close_attendance_session(c, "POST", s, "none")
                      sum == attendance_session_list(r.store, s)
                  IN  /\ r.out = "finalized"
                      /\ r.count = Cardinality(missing_users(s))
                      /\ r.store.session[s].is_ended
                      /\ \A u \in UserIds :
                            r.store.attendance[<<s, u>>] =
                                IF u \in missing_users(s) THEN Row("absent")
                                ELSE RowsOf(s, u)
                      /\ sum.present_count =
                            Cardinality(TargetsWith(Store, s, "present"))
                      /\ sum.late_count =
                            Cardinality(TargetsWith(Store, s, "late"))
                      /\ sum.absent_count =
                            Cardinality(TargetsWith(Store, s, "absent"))
                            + Cardinality(missing_users(s))
                      /\ sum.unmarked_count = 0
        /\ Ended(s) =>
              LET sum == attendance_session_list(Store, s)
              IN  /\ sum.unmarked_count = 0
                  /\ sum.present_count =
                        Cardinality(TargetsWith(Store, s, "present"))
                  /\ sum.late_count = Cardinality(TargetsWith(Store, s, "late"))
                  /\ sum.absent_count =
                        Cardinality(TargetsWith(Store, s, "absent"))
                  /\ sum.present_count + sum.late_count + sum.absent_count
                        = sum.target_count

\* A closed session of two targets, one marked present, the other absent:
\* the summary reads 2 targets, 1 present, 0 late, 1 absent, 0 unmarked.
C4_Witness ==
    \E s \in DOMAIN session :
        /\ Ended(s)
        /\ attendance_session_list(Store, s) =
               [target_count |-> 2, present_count |-> 1, late_count |-> 0,
                absent_count |-> 1, unmarked_count |-> 0]

C6_NoMarkAfterFill ==
    [][\A s \in DOMAIN session : Ended(s) =>
          \A u \in DOMAIN user' :
              attendance'[<<s, u>>] = attendance[<<s, u>>]]_vars

\* C7: a create that succeeds yields an open session with a non-blank title
\* and at least one target, the targets being the given ids that match
\* users; a blank title or an empty id list creates nothing.
C7_CreatedHasTitleAndTargets ==
    \A c \in Callers, b \in Bodies :
        LET r == create_attendance_session(c, "POST", b)
            n == Len(session) + 1
        IN  /\ r.out = "created" =>
                  /\ Len(r.store.session) = n
                  /\ ~r.store.session[n].is_ended
                  /\ strip(r.store.session[n].title) # <<>>
                  /\ r.store.session[n].targets # {}
                  /\ r.store.session[n].targets = b.targets \cap DOMAIN user
            /\ (~b.has_title \/ strip(b.title) = <<>> \/ b.targets = {}) =>
                  r.out # "created" /\ r.store = Store

\* C8: at most one Attendance row per (session, user); a mark of a target
\* in an open session leaves that pair with the one row of the status
\* given, whatever was stored, and changes nothing else.
C8_MarkIsUpsert ==
    /\ \A s \in SessionIds, u \in UserIds : Len(RowsOf(s, u)) <= 1
    /\ \A s \in DOMAIN session : ~Ended(s) =>
          \A c \in Admins, u \in session[s].targets, status \in Statuses :
              LET r == attendance_session_detail(c, "POST", s, u, status)
              IN  /\ r.out = "marked"
                  /\ r.count = (IF RowsOf(s, u) = <<>> THEN 1 ELSE 0)
                  /\ r.store = [Store EXCEPT
                                   !.attendance[<<s, u>>] = Row(status)]

\* An open session in which a target is marked late: the next mark of that
\* target overwrites the row.
C8_Witness ==
    \E s \in DOMAIN session :
        /\ ~Ended(s)
        /\ \E u \in session[s].targets :
              /\ RowsOf(s, u) = Row("late")
              /\ \E c \in Admins :
                    attendance_session_detail(c, "POST", s, u, "present").count = 0

C10_OnlySuperusersAreServed ==
    \A c \in Callers \ Admins, m \in Methods :
        /\ \A b \in Bodies :
              LET r == create_attendance_session(c, m, b)
              IN  r.out = "login" /\ r.store = Store
        /\ \A s \in SessionParams, p \in MarkParams :
              LET r == attendance_session_detail(c, m, s, p.user_id, p.status)
              IN  r.out = "login" /\ r.store = Store
        /\ \A s \in SessionParams, f \in Faults :
              LET r == close_attendance_session(c, m, s, f)
              IN  r.out = "login" /\ r.store = Store
        /\ \A v \in ReadOnlyViews :
              LET r == read_only_view(c, v)
              IN  r.out = "login" /\ r.store = Store
        /\ \A f \in CreateForms :
              LET r == create_user(c, m, f)
              IN  r.out = "login" /\ r.store = Store
        /\ \A u \in UserParams :
              /\ LET r == user_detail(c, u)
                 IN  r.out = "login" /\ r.store = Store
              /\ LET r == user_delete(c, m, u)
                 IN  r.out = "login" /\ r.store = Store
              /\ \A f \in EditForms :
                    LET r == user_edit(c, m, u, f)
                    IN  r.out = "login" /\ r.store = Store

\* C11: a delete request (POST) on a superuser account by a caller who is no
\* superuser, logged in or not, is answered with the permission error and
\* leaves the whole store as it was: the account, its profile, its target
\* memberships and its Attendance rows.
C11_SuperuserDeleteRefused ==
    \A c \in DOMAIN user \cup {Anonymous}, u \in DOMAIN user :
        (~is_superuser(c) /\ user[u].is_superuser) =>
            LET r == user_delete(c, "POST", u)
            IN  r.out = "error_permission" /\ r.store = Store

\* A superuser with a profile, a target membership and an Attendance row,
\* whose deletion a logged-in account that is no superuser asks for.
C11_Witness ==
    \E u \in DOMAIN user, c \in DOMAIN user :
        /\ user[u].is_superuser /\ ~is_superuser(c)
        /\ u \in DOMAIN profile
        /\ \E s \in DOMAIN session :
              u \in session[s].targets /\ RowsOf(s, u) # <<>>
        /\ user_delete(c, "POST", u).out = "error_permission"

\* C12: the matrix export has one column per session, in creation order and
\* headed by the session's title, and one row per user with a profile; the
\* cell of a (user, session) pair is "N/A" when the pair has no Attendance
\* row and the stored status when it has one, whatever the titles; the
\* export writes nothing.
C12_MatrixCellsAreStoredStatus ==
    LET frame == export_attendance_matrix_excel(Store)
        students == {u \in DOMAIN user : u \in DOMAIN profile}
    IN  /\ Len(frame.columns) = Len(session)
        /\ \A k \in DOMAIN session : frame.columns[k] = session[k].title
        /\ Len(frame.rows) = Cardinality(students)
        /\ \A u \in students :
              \E i \in DOMAIN frame.rows :
                  /\ frame.rows[i].User = user[u].username
                  /\ \A k \in DOMAIN session :
                        frame.rows[i].cells[k] =
                            IF RowsOf(k, u) = <<>> THEN "N/A"
                            ELSE RowsOf(k, u)[1].status
        /\ \A c \in Callers :
              read_only_view(c, "export_attendance_matrix_excel").store = Store

\* C13: for every user, the analytics report total_sessions = the number of
\* sessions targeting the user and unmarked = total_sessions - (present +
\* late + absent), and unmarked is the number of open sessions targeting
\* the user in which the user has no Attendance row (so a closed session
\* contributes 0 and the value is never negative); a user no session
\* targets gets total_sessions, every percentage and attendance_rate 0.
C13_UnmarkedCountsOpenSessions ==
    \A u \in DOMAIN user :
        LET a == per_user_stats(Store, u)
            targeting == {s \in DOMAIN session : u \in session[s].targets}
        IN  /\ a.total_sessions = Cardinality(targeting)
            /\ a.unmarked.count =
                  a.total_sessions
                      - (a.present.count + a.late.count + a.absent.count)
            /\ a.unmarked.count =
                  Cardinality({s \in targeting :
                                  ~Ended(s) /\ RowsOf(s, u) = <<>>})
            /\ a.unmarked.count >= 0
            /\ targeting = {} =>
                  /\ a.total_sessions = 0
                  /\ a.attendance_rate = 0
                  /\ a.present.percent = 0 /\ a.late.percent = 0
                  /\ a.absent.percent = 0 /\ a.unmarked.percent = 0

\* An open session in which one target is marked late and another is not
\* marked: the first has unmarked 0 and attendance_rate 100.0, the second
\* unmarked 1 and attendance_rate 0.
C13_Witness ==
    \E s \in DOMAIN session, u \in DOMAIN user, v \in DOMAIN user :
        /\ ~Ended(s)
        /\ {u, v} \subseteq session[s].targets
        /\ RowsOf(s, u) = Row("late") /\ RowsOf(s, v) = <<>>
        /\ per_user_stats(Store, u).unmarked.count = 0
        /\ per_user_stats(Store, u).attendance_rate = 1000
        /\ per_user_stats(Store, v).unmarked.count = 1
        /\ per_user_stats(Store, v).attendance_rate = 0
====
